---- MODULE Spec2Model ----
(***************************************************************************)
(* Model of lbg_tools.completeness.Completeness.                           *)
(*                                                                         *)
(* Numbers are fixed point: the integer v stands for the real v / One.    *)
(* Grid labels are spaced 2 apart and every table value is a multiple of  *)
(* 4, so that bilinear interpolation at integer query coordinates is      *)
(* exact in integers.                                                      *)
(*                                                                         *)
(* An ndarray of at most two dimensions is the record [nd, val]: nd is    *)
(* its number of dimensions and val its np.atleast_2d view, a sequence of  *)
(* rows.  A scalar has nd = 0 and a 1 x 1 view, an array of shape (n,)     *)
(* has nd = 1 and a 1 x n view.                                            *)
(***************************************************************************)
EXTENDS Integers, Sequences, FiniteSets, TLC

VARIABLES
    table,      \* self.table0 and self.table: one DataFrame, parsed from
                \* completeness_<band>.dat and then mutated in place
    band,       \* self._band
    m5_det,     \* self._m5_det
    ctor,       \* the arguments the constructor was called with
    pc,         \* position: "loaded", "monotonic", "ready", "returned", "raised"
    op,         \* the last operation attempted on the constructed object
    qm, qz,     \* the arguments m and z of the last __call__
    result,     \* what the last __call__ returned
    err,        \* the exception the last operation raised, or "none"
    array,      \* argument of a direct use of _force_unimodality
    new_array   \* its return value

vars == <<table, band, m5_det, ctor, pc, op, qm, qz, result, err,
          array, new_array>>

----------------------------------------------------------------------------
(* Fixed-point scale and numpy's tolerances *)

\* 1 / rtol, for np.isclose's default rtol = 1e-5
RtolInv == 100000

\* rtol / atol, for np.isclose's defaults rtol = 1e-5 and atol = 1e-8
RtolOverAtol == 1000

\* the real number 1.0
One == 8 * RtolInv

Half == One \div 2

Abs(x) == IF x < 0 THEN -x ELSE x

\* np.isclose(a, b): |a - b| <= atol + rtol * |b|, scaled by RtolInv.
\* The first conjunct keeps the product inside 32 bits; a difference that
\* large exceeds every tolerance the second conjunct can produce.
isclose(a, b) ==
    LET d == Abs(a - b)
    IN  /\ d <= 20000
        /\ d * RtolInv <= (One \div RtolOverAtol) + Abs(b)

Max2(a, b) == IF a >= b THEN a ELSE b

\* ndarray.max() of a non-empty 1-D array
RECURSIVE SeqMax(_)
SeqMax(s) ==
    IF Len(s) = 1 THEN s[1] ELSE Max2(s[1], SeqMax(Tail(s)))

\* column j of a 2-D grid, as a 1-D array
Column(t, j) == [i \in 1..Len(t) |-> t[i][j]]

----------------------------------------------------------------------------
(* Shape enforcement *)

\* the inner loop of _force_mag_monotonicity on row `row`, from column j on
RECURSIVE ScanRow(_, _)
ScanRow(row, j) ==
    IF j > Len(row) THEN row
    ELSE IF isclose(row[j], 0)
         THEN [k \in 1..Len(row) |-> 0]
         ELSE ScanRow([row EXCEPT ![j] = SeqMax(SubSeq(row, j, Len(row)))],
                      j + 1)

\* Completeness._force_mag_monotonicity
force_mag_monotonicity(t) == [i \in 1..Len(t) |-> ScanRow(t[i], 1)]

\* the loop of _force_unimodality: both running maxima, updated in place
RECURSIVE MonotonicLoop(_, _, _)
MonotonicLoop(front, back, i) ==
    IF i > Len(front) THEN [front |-> front, back |-> back]
    ELSE MonotonicLoop(
            [front EXCEPT ![i] = SeqMax(SubSeq(front, 1, i))],
            [back EXCEPT ![i] = SeqMax(SubSeq(back, i, Len(back)))],
            i + 1)

\* the same, with the mask taken on the input instead of on its forward
\* running maximum
force_unimodality_mask_on_input(a) ==
    LET mono == MonotonicLoop(a, a, 1)
        top  == SeqMax(a)
    IN  [i \in 1..Len(a) |->
            IF isclose(a[i], top) THEN mono.back[i] ELSE mono.front[i]]

\* Completeness._force_unimodality
force_unimodality(a) ==
    LET mono == MonotonicLoop(a, a, 1)
        top  == SeqMax(mono.front)
    IN  [i \in 1..Len(a) |->
            IF isclose(mono.front[i], top) THEN mono.back[i]
                                           ELSE mono.front[i]]

\* a grid with force_unimodality applied to every column
UnimodalColumns(t) ==
    [i \in 1..Len(t) |->
        [j \in 1..Len(t[1]) |-> force_unimodality(Column(t, j))[i]]]

\* a grid with force_unimodality applied to every row
UnimodalRows(t) == [i \in 1..Len(t) |-> force_unimodality(t[i])]

\* Completeness._force_z_unimodality
force_z_unimodality(t) == UnimodalColumns(t)

----------------------------------------------------------------------------
(* The interpolator *)

\* table.index: the redshift labels of the rows; the data files of the
\* model label their rows 0, 2, 4, ...
index(t) == [i \in 1..Len(t) |-> 2 * (i - 1)]

\* table.columns: the magnitude-offset labels of the columns; the data
\* files of the model label their columns -2, 0, 2, ...
columns(t) == [j \in 1..Len(t[1]) |-> 2 * (j - 2)]

RECURSIVE SeqMin(_)
SeqMin(s) ==
    IF Len(s) = 1 THEN s[1]
    ELSE LET r == SeqMin(Tail(s)) IN IF s[1] <= r THEN s[1] ELSE r

\* RegularGridInterpolator's cell search: np.searchsorted(grid, x) - 1,
\* kept inside [0, len(grid) - 2]; here as the 1-based lower index
find_index(grid, x) ==
    LET below == Cardinality({k \in 1..Len(grid) : grid[k] < x})
    IN  IF below < 1 THEN 1
        ELSE IF below > Len(grid) - 1 THEN Len(grid) - 1
        ELSE below

\* self._interpolator at one point: method="linear", bounds_error=False,
\* fill_value=None, so the edge cell's plane is extended outside the grid
interpolator(t, z, dm) ==
    LET zs == index(t)
        ms == columns(t)
        i  == find_index(zs, z)
        j  == find_index(ms, dm)
        z0 == zs[i]
        z1 == zs[i + 1]
        m0 == ms[j]
        m1 == ms[j + 1]
        num == (z1 - z) * (m1 - dm) * t[i][j]
             + (z1 - z) * (dm - m0) * t[i][j + 1]
             + (z - z0) * (m1 - dm) * t[i + 1][j]
             + (z - z0) * (dm - m0) * t[i + 1][j + 1]
    IN  num \div ((z1 - z0) * (m1 - m0))

----------------------------------------------------------------------------
(* ndarrays *)

Scalar(x) == [nd |-> 0, val |-> <<<<x>>>>]
Array1(s) == [nd |-> 1, val |-> <<s>>]
Array2(g) == [nd |-> 2, val |-> g]

NRows(a) == Len(a.val)
NCols(a) == Len(a.val[1])

\* ndarray.shape
Shape(a) ==
    IF a.nd = 0 THEN <<>>
    ELSE IF a.nd = 1 THEN <<NCols(a)>>
    ELSE <<NRows(a), NCols(a)>>

\* the value no call returned
NoResult == [nd |-> 0, val |-> <<>>]

\* numpy's broadcasting rule on one axis
AxisOk(n, k) == n = k \/ n = 1 \/ k = 1

\* element (i, j) of a after broadcasting
At(a, i, j) ==
    a.val[IF NRows(a) = 1 THEN 1 ELSE i][IF NCols(a) = 1 THEN 1 ELSE j]

\* ndarray.squeeze() of a 2-D grid
squeeze(g) ==
    IF Len(g) = 1 /\ Len(g[1]) = 1 THEN [nd |-> 0, val |-> g]
    ELSE IF Len(g) = 1 THEN [nd |-> 1, val |-> g]
    ELSE IF Len(g[1]) = 1 THEN [nd |-> 1, val |-> <<Column(g, 1)>>]
    ELSE [nd |-> 2, val |-> g]

----------------------------------------------------------------------------
(* Completeness.__call__ *)

\* the same, without the clip
clip_offset_unclipped(x, lo) == x

\* np.clip(dm, self.table.columns.min(), None) on one element
clip_offset(x, lo) == Max2(x, lo)

\* dm = np.clip(m - self.m5_det, self.table.columns.min(), None)
ClippedOffset(t, depth, m) ==
    LET lo == SeqMin(columns(t))
    IN  [nd |-> m.nd,
         val |-> [i \in 1..NRows(m) |-> [j \in 1..NCols(m) |->
                    clip_offset(m.val[i][j] - depth, lo)]]]

\* the same, without the clip
clip_completeness_unclipped(x) == x

\* np.clip(completeness, 0, None) on one element
clip_completeness(x) == Max2(x, 0)

\* the two inputs must have one shape
broadcastable_same_shape(a, b) ==
    a.nd = b.nd /\ NRows(a) = NRows(b) /\ NCols(a) = NCols(b)

\* the interpolator's np.broadcast_arrays(z, dm) accepts the two shapes
broadcastable(a, b) ==
    AxisOk(NRows(a), NRows(b)) /\ AxisOk(NCols(a), NCols(b))

\* the shape of the broadcast of a and b, as (rows, columns) of its 2-D view
BroadcastRows(a, b) == Max2(NRows(a), NRows(b))
BroadcastCols(a, b) == Max2(NCols(a), NCols(b))

\* self._interpolator((z, dm)) on the broadcast of z and dm, as a 2-D grid
Interpolated(t, z, dm) ==
    [i \in 1..BroadcastRows(z, dm) |-> [j \in 1..BroadcastCols(z, dm) |->
        interpolator(t, At(z, i, j), At(dm, i, j))]]

\* completeness = np.clip(completeness, 0, None)
Clipped(g) ==
    [i \in 1..Len(g) |-> [j \in 1..Len(g[1]) |-> clip_completeness(g[i][j])]]

\* "Make unimodal along both directions": every row, then every column
MakeUnimodal(g) == UnimodalColumns(UnimodalRows(g))

\* the outcome of Completeness.__call__(m, z) on table t
Estimate(t, depth, m, z) ==
    LET dm == ClippedOffset(t, depth, m)
    IN  IF ~broadcastable(z, dm)
        THEN [err |-> "ValueError", result |-> NoResult]
        ELSE [err |-> "none",
              result |-> squeeze(MakeUnimodal(Clipped(Interpolated(t, z, dm))))]

\* assignment to a plain attribute
set_plain_attribute(cur, v) == [err |-> "none", val |-> v]

\* assignment to band or m5_det: a property that defines a getter only
set_property(cur, v) == [err |-> "AttributeError", val |-> cur]

----------------------------------------------------------------------------
(* Inputs *)

\* longest 1-D batch of redshifts passed to __call__
MaxLen == 3

\* longest 1-D batch of magnitudes passed to __call__
MaxMagLen == 2

\* longest array passed to _force_unimodality directly
MaxArr == 4

\* a small negative completeness, as empirical noise leaves in a data file
Noise == -(One \div 100)

\* just under one half, within np.isclose's tolerance of it
NearHalf == Half - 4

\* all r x c grids over the values V
Grids(r, c, V) == [1..r -> [1..c -> V]]

\* all 1-D arrays over V of length 1..n
Arrays(n, V) == UNION {[1..k -> V] : k \in 1..n}

\* scalars and 1-D batches of length 1..n over V
Batches(n, V) == {Scalar(x) : x \in V} \cup {Array1(s) : s \in Arrays(n, V)}

Bands == {"u"}
Depths == {0, 1}

\* data files of the query specification
QueryFiles ==
    Grids(2, 2, {Noise, 0, Half, One}) \cup Grids(3, 2, {Noise, 0, One})
        \cup Grids(2, 3, {Noise, 0, One})

\* magnitudes: far brighter than the grid, inside it, far fainter
MagVals == {-9, -1, 11}

\* redshifts: inside the grid and beyond its last row
ZVals == {1, 6}

\* the magnitude arguments and the redshift arguments of the queries
MagBatches == Batches(MaxMagLen, MagVals)
ZBatches == Batches(MaxLen, ZVals)

----------------------------------------------------------------------------
(* The object's life *)

Idle ==
    /\ op = "none" /\ qm = NoResult /\ qz = NoResult
    /\ result = NoResult /\ err = "none"

\* __init__ up to the end of the file search: parameters saved, file parsed
Loaded(files) ==
    /\ table \in files
    /\ band \in Bands
    /\ m5_det \in Depths
    /\ ctor = [band |-> band, m5_det |-> m5_det]
    /\ pc = "loaded"
    /\ Idle
    /\ array = <<>> /\ new_array = <<>>

Init == Loaded(QueryFiles)

\* __init__: the inner call, _force_mag_monotonicity(self.table0)
ForceMagMonotonicity ==
    /\ pc = "loaded"
    /\ table' = force_mag_monotonicity(table)
    /\ pc' = "monotonic"
    /\ UNCHANGED <<band, m5_det, ctor, op, qm, qz, result, err,
                   array, new_array>>

\* __init__: _force_z_unimodality of that, kept as self.table, and the
\* interpolator built over its values
ForceZUnimodality ==
    /\ pc = "monotonic"
    /\ table' = force_z_unimodality(table)
    /\ pc' = "ready"
    /\ UNCHANGED <<band, m5_det, ctor, op, qm, qz, result, err,
                   array, new_array>>

\* completeness(m, z)
Call(m, z) ==
    /\ pc = "ready"
    /\ LET out == Estimate(table, m5_det, m, z)
       IN  /\ err' = out.err
           /\ result' = out.result
           /\ pc' = IF out.err = "none" THEN "returned" ELSE "raised"
    /\ op' = "call"
    /\ qm' = m
    /\ qz' = z
    /\ UNCHANGED <<table, band, m5_det, ctor, array, new_array>>

\* completeness.band = v
SetBand(v) ==
    /\ pc = "ready"
    /\ LET out == set_property(band, v)
       IN  /\ err' = out.err
           /\ band' = out.val
           /\ pc' = IF out.err = "none" THEN "returned" ELSE "raised"
    /\ op' = "set_band"
    /\ UNCHANGED <<table, m5_det, ctor, qm, qz, result, array, new_array>>

\* completeness.m5_det = v
SetM5Det(v) ==
    /\ pc = "ready"
    /\ LET out == set_property(m5_det, v)
       IN  /\ err' = out.err
           /\ m5_det' = out.val
           /\ pc' = IF out.err = "none" THEN "returned" ELSE "raised"
    /\ op' = "set_m5_det"
    /\ UNCHANGED <<table, band, ctor, qm, qz, result, array, new_array>>

\* the caller takes the return value, or handles the exception, and goes on
Resume ==
    /\ pc \in {"returned", "raised"}
    /\ pc' = "ready"
    /\ op' = "none" /\ qm' = NoResult /\ qz' = NoResult
    /\ result' = NoResult /\ err' = "none"
    /\ UNCHANGED <<table, band, m5_det, ctor, array, new_array>>

Next ==
    \/ ForceMagMonotonicity
    \/ ForceZUnimodality
    \/ \E m \in MagBatches, z \in ZBatches : Call(m, z)
    \/ \E v \in {"fake"} : SetBand(v)
    \/ \E v \in {-99} : SetM5Det(v)
    \/ Resume

Spec == Init /\ [][Next]_vars

\* data files whose values all lie in [0, 1]
UnitFiles ==
    Grids(2, 2, {0, Half, One}) \cup Grids(3, 2, {0, Half, One})

\* the query specification over those files only
SpecUnit == Loaded(UnitFiles) /\ [][Next]_vars

\* data files of the construction specification: noise, exact zeros, and
\* values within np.isclose's tolerance of each other
BuildFiles ==
    Grids(2, 2, {Noise, 0, NearHalf, Half, One})
        \cup Grids(3, 2, {0, NearHalf, Half, One})
        \cup Grids(2, 3, {Noise, 0, Half, One})

\* the two shape-enforcement steps of __init__
NextBuild == ForceMagMonotonicity \/ ForceZUnimodality

\* construction alone, over BuildFiles
SpecBuild == Loaded(BuildFiles) /\ [][NextBuild]_vars

\* values of the arrays given to _force_unimodality
ArrayVals == {Noise, 0, NearHalf, Half, One}

\* _force_unimodality(array) called on its own
ForceUnimodality ==
    /\ pc = "array"
    /\ new_array' = force_unimodality(array)
    /\ pc' = "done"
    /\ UNCHANGED <<table, band, m5_det, ctor, op, qm, qz, result, err, array>>

InitArray ==
    /\ array \in Arrays(MaxArr, ArrayVals)
    /\ new_array = <<>>
    /\ pc = "array"
    /\ table = <<>>
    /\ band = "u" /\ m5_det = 0 /\ ctor = [band |-> "u", m5_det |-> 0]
    /\ Idle

\* the 1-D primitive alone
SpecArray == InitArray /\ [][ForceUnimodality]_vars

\* data files of the batch specification: flat in redshift, so that every
\* query returns the value of its magnitude's column
BatchFiles == {<<<<One, 0>>, <<One, 0>>>>, <<<<One, Half>>, <<One, Half>>>>}

\* 3 x 3 batches of magnitudes at the two columns of the grid
MagGrids == {Array2(g) : g \in Grids(3, 3, {-2, 0})}

\* a 3 x 3 batch of redshifts inside the grid
ZGrids == {Array2([i \in 1..3 |-> [j \in 1..3 |-> 1]])}

NextBatch ==
    \/ ForceMagMonotonicity
    \/ ForceZUnimodality
    \/ \E m \in MagGrids, z \in ZGrids : Call(m, z)
    \/ Resume

\* queries with 2-D batches
SpecBatch ==
    /\ Loaded(BatchFiles)
    /\ [][NextBatch]_vars

----------------------------------------------------------------------------
(* Vocabulary of the claims *)

Returned == pc = "returned" /\ op = "call"

Called == op = "call" /\ pc \in {"returned", "raised"}

\* the values of an ndarray
Values(a) == {a.val[i][j] : i \in 1..NRows(a), j \in 1..NCols(a)}

\* the offsets the interpolator is evaluated at in the last call
LastOffsets == ClippedOffset(table, m5_det, qm)

\* the interpolator's values in the last call, before any clipping
LastInterpolated == Interpolated(table, qz, LastOffsets)

GridValues(g) == {g[i][j] : i \in 1..Len(g), j \in 1..Len(g[1])}

\* every element of m is at or below the brightest column of the table
IsBright(m) == \A x \in Values(m) : x - m5_det <= SeqMin(columns(table))

\* every element of m is the faintest magnitude of the model, 11, which is
\* more than four columns beyond the faint edge of every table
IsFaint(m) == \A x \in Values(m) : x = 11

\* numpy's rule on the shapes themselves: aligned at their last axes, two
\* axes agree when they are equal or one of them is 1
RECURSIVE ShapesBroadcast(_, _)
ShapesBroadcast(s, u) ==
    IF s = <<>> \/ u = <<>> THEN TRUE
    ELSE /\ \/ s[Len(s)] = u[Len(u)]
            \/ s[Len(s)] = 1
            \/ u[Len(u)] = 1
         /\ ShapesBroadcast(SubSeq(s, 1, Len(s) - 1), SubSeq(u, 1, Len(u) - 1))

----------------------------------------------------------------------------
(* C1 *)

\* C1: no value returned by a query is less than 0, whatever the table
\* (negative cells included) and whatever the query (scalar or batch,
\* inside or outside the grid): the unimodality pass keeps the clip at 0.
C1_NonNegative == Returned => \A v \in Values(result) : v >= 0

\* a batch call has returned where the interpolator itself went below 0
\* at one point and above 0 at another, on a table with a negative cell
C1_Witness ==
    /\ Returned
    /\ qz.nd = 1
    /\ \E v \in GridValues(LastInterpolated) : v < 0
    /\ \E v \in GridValues(LastInterpolated) : v > 0
    /\ \E v \in GridValues(table) : v < 0

----------------------------------------------------------------------------
(* C2 *)

\* C2: over data files whose values all lie in [0, 1], no value returned
\* by a query exceeds 1, for redshifts and offsets outside the grid too.
C2_AtMostOne == Returned => \A v \in Values(result) : v <= One

----------------------------------------------------------------------------
(* C3 *)

\* C3: a call at magnitudes all at or brighter than the brightest column
\* returns what any other such magnitudes of the same shape return at the
\* same redshifts.
C3_BrightClamped ==
    (Returned /\ IsBright(qm)) =>
        \A m2 \in MagBatches :
            (Shape(m2) = Shape(qm) /\ IsBright(m2)) =>
                Estimate(table, m5_det, m2, qz).result = result

\* a bright call has returned on a table whose bright edge has a slope in
\* magnitude, with another bright magnitude to compare against
C3_Witness ==
    /\ Returned /\ IsBright(qm)
    /\ \E m2 \in MagBatches :
            m2 # qm /\ Shape(m2) = Shape(qm) /\ IsBright(m2)
    /\ \E i \in 1..Len(table) : table[i][1] # table[i][2]
    /\ \E v \in Values(result) : v > 0

----------------------------------------------------------------------------
(* C4 *)

\* C4: a query at the faintest magnitude, far beyond the faint edge of the
\* grid, returns values within [0, 1] that are all (close to) 0.
C4_FaintIsZero ==
    (Returned /\ IsFaint(qm)) =>
        \A v \in Values(result) : v >= 0 /\ v <= One /\ isclose(v, 0)

----------------------------------------------------------------------------
(* C7 *)

\* C7: band and m5_det always equal the constructor's arguments, and every
\* attempt to assign either raises an error.
C7_ReadOnly ==
    /\ band = ctor.band
    /\ m5_det = ctor.m5_det
    /\ op \in {"set_band", "set_m5_det"} => err = "AttributeError"

\* an assignment to band has been attempted and has raised
C7_Witness == op = "set_band" /\ pc = "raised" /\ err = "AttributeError"

----------------------------------------------------------------------------
(* C8 *)

\* C8: whenever the magnitude and the redshift input differ in shape, the
\* query raises a value error and returns nothing.
C8_MismatchRaises ==
    (Called /\ Shape(qm) # Shape(qz)) =>
        err = "ValueError" /\ result = NoResult

\* C8, amended: the query raises a value error, and returns nothing,
\* exactly when the two shapes cannot be broadcast to one shape; inputs of
\* different but compatible shapes are broadcast and a result of the
\* broadcast shape (squeezed) is returned.
C8_IncompatibleRaises ==
    Called =>
        /\ err = "ValueError" <=> ~ShapesBroadcast(Shape(qm), Shape(qz))
        /\ err = "ValueError" => result = NoResult /\ pc = "raised"
        /\ err # "ValueError" => err = "none" /\ result # NoResult

\* a call with a batch of two magnitudes and one of three redshifts raised
C8_Witness ==
    /\ Called /\ err = "ValueError"
    /\ Shape(qm) = <<2>> /\ Shape(qz) = <<3>>

----------------------------------------------------------------------------
(* Shapes *)

NonIncreasing(s) == \A k \in 1..(Len(s) - 1) : s[k] >= s[k + 1]

NonDecreasing(s) == \A k \in 1..(Len(s) - 1) : s[k] <= s[k + 1]

\* non-decreasing up to some position p and non-increasing from it on
Unimodal(s) ==
    \E p \in 1..Len(s) :
        /\ NonDecreasing(SubSeq(s, 1, p))
        /\ NonIncreasing(SubSeq(s, p, Len(s)))

RowsNonIncreasing(t) == \A i \in 1..Len(t) : NonIncreasing(t[i])

RowsUnimodal(t) == \A i \in 1..Len(t) : Unimodal(t[i])

ColumnsUnimodal(t) == \A j \in 1..Len(t[1]) : Unimodal(Column(t, j))

----------------------------------------------------------------------------
(* C5 *)

\* C5: the table the estimator owns after construction has every row
\* non-increasing from the brightest to the faintest column and every
\* column unimodal.
C5_TableShape ==
    pc = "ready" => RowsNonIncreasing(table) /\ ColumnsUnimodal(table)

----------------------------------------------------------------------------
(* C6 *)

\* the largest of s[lo..hi]
RangeMax(s, lo, hi) ==
    CHOOSE v \in {s[k] : k \in lo..hi} : \A k \in lo..hi : s[k] <= v

\* forward and backward running maximum
Forward(s) == [i \in 1..Len(s) |-> RangeMax(s, 1, i)]
Backward(s) == [i \in 1..Len(s) |-> RangeMax(s, i, Len(s))]

----------------------------------------------------------------------------
(* C9 *)

\* C9: the grid a query returns is unimodal along both directions: every
\* row and every column has at most one local maximum.
C9_BothDirections ==
    (Returned /\ result.nd = 2) =>
        RowsUnimodal(result.val) /\ ColumnsUnimodal(result.val)

----------------------------------------------------------------------------
(* C10 *)

\* the first column of row at which the scan meets an approximately zero
\* cell, or Len(row) + 1 when it meets none
FirstZero(row) ==
    LET hits == {j \in 1..Len(row) : isclose(row[j], 0)}
    IN  IF hits = {} THEN Len(row) + 1
        ELSE CHOOSE j \in hits : \A k \in hits : j <= k

\* the row the claim describes: zero from the first approximately zero
\* cell on, and before it the maximum of the values to the right
RemainderZeroed(row) ==
    [k \in 1..Len(row) |->
        IF k >= FirstZero(row) THEN 0 ELSE RangeMax(row, k, Len(row))]

\* C10: magnitude-monotonicity enforcement sets exactly the remainder of
\* the row to zero when it meets an approximately zero cell; the brighter
\* cells keep the maximum of the values to their right.
C10_RemainderOnly ==
    [][(pc = "loaded" /\ pc' = "monotonic") =>
         \A i \in 1..Len(table) : table'[i] = RemainderZeroed(table[i])]_vars

====
